---- MODULE Spec2Model ----
(***************************************************************************)
(* Test-lifecycle reporting pipeline of Python-Pylenium-Web:               *)
(*   utils/api_helper.py  APIHelper (tracking client)                      *)
(*   utils/screenshot.py  save_screenshot_on_failure                       *)
(*   conftest.py          pytest_sessionstart / pytest_runtest_makereport  *)
(*                        / pytest_sessionfinish                           *)
(* Strings that never influence control flow (job name, URLs, tokens) and  *)
(* wall-clock timestamps are left out of the payloads.  A test name is the *)
(* number of its item.  Python None is the string "None".                  *)
(***************************************************************************)
EXTENDS Integers, Sequences, FiniteSets, TLC

\* ------------------------------------------------------------------ bounds
MaxTests == 3
\* tests of a session in which the durations vary
MaxTimedTests == 1
\* get_logger calls per logger name
MaxLoggerCalls == 3

\* ------------------------------------------------------- process environment
\* os.getenv of the two variables __init__ uses for CI detection and for the
\* build number; a value is a sequence of characters.
Envs ==
    { [JENKINS_HOME |-> jh, HAS_BUILD_NUMBER |-> hb, BUILD_NUMBER |-> bn] :
        jh \in BOOLEAN, hb \in BOOLEAN,
        bn \in {<<"4", "2">>, <<"a", "b">>, <<"4", ".", "2">>, <<>>} }

DigitChars == {"0", "1", "2", "3", "4", "5", "6", "7", "8", "9"}

DigitVal(c) ==
    CASE c = "0" -> 0 [] c = "1" -> 1 [] c = "2" -> 2 [] c = "3" -> 3
      [] c = "4" -> 4 [] c = "5" -> 5 [] c = "6" -> 6 [] c = "7" -> 7
      [] c = "8" -> 8 [] c = "9" -> 9

\* int(str): a ValueError unless the text is a decimal literal (the values
\* of Envs carry no sign, blank or underscore).
IsIntLiteral(s) == Len(s) > 0 /\ \A i \in 1..Len(s) : s[i] \in DigitChars

RECURSIVE IntOf(_)
IntOf(s) ==
    IF Len(s) = 0 THEN 0
    ELSE 10 * IntOf(SubSeq(s, 1, Len(s) - 1)) + DigitVal(s[Len(s)])

\* ------------------------------------------------------------ str methods
Upper(s) ==
    CASE s = "passed"  -> "PASSED"
      [] s = "failed"  -> "FAILED"
      [] s = "skipped" -> "SKIPPED"
      [] s = "unknown" -> "UNKNOWN"

Lower(s) ==
    CASE s = "passed"  -> "passed"
      [] s = "failed"  -> "failed"
      [] s = "skipped" -> "skipped"
      [] s = "unknown" -> "unknown"

\* ------------------------------------------------------- backend responses
\* A JSON body as far as the client looks into it:
\*   parsable         response.json() returns (otherwise it raises)
\*   kind             type of the top-level value
\*   other_keys       an object has keys besides "pipeline_run"
\*   has_pipeline_run the object has the key "pipeline_run"
\*   pr_kind          type of the value under "pipeline_run"
\*   has_run_id       that object has the key "run_id"
\*   run_id           the value under "run_id" ("None" for JSON null)
Body(p, k, o, hp, pk, hr, r) ==
    [parsable |-> p, kind |-> k, other_keys |-> o, has_pipeline_run |-> hp,
     pr_kind |-> pk, has_run_id |-> hr, run_id |-> r]

RunIdBody(r) == Body(TRUE, "object", FALSE, TRUE, "object", TRUE, r)
EmptyObject  == Body(TRUE, "object", FALSE, FALSE, "null", FALSE, "None")
OtherObject  == Body(TRUE, "object", TRUE, FALSE, "null", FALSE, "None")
NoRunId      == Body(TRUE, "object", FALSE, TRUE, "object", FALSE, "None")
NullRun      == Body(TRUE, "object", FALSE, TRUE, "null", FALSE, "None")
NumberBody   == Body(TRUE, "number", FALSE, FALSE, "null", FALSE, "None")
EmptyArray   == Body(TRUE, "array", FALSE, FALSE, "null", FALSE, "None")
Unparsable   == Body(FALSE, "null", FALSE, FALSE, "null", FALSE, "None")

RunIds == {"run-1"}

CreateBodies ==
    {RunIdBody(r) : r \in RunIds \cup {"None", ""}} \cup
    {EmptyObject, OtherObject, NoRunId, NullRun, NumberBody, EmptyArray,
     Unparsable}

TestCaseBodies == {OtherObject, EmptyObject, Unparsable}

\* What requests.post / requests.patch can do: raise, or return a response.
TransportErrors == {"Timeout", "ConnectionError", "RequestException"}

Raises(e)      == [exc |-> e, status_code |-> 0, body |-> Unparsable]
Answer(sc, b)  == [exc |-> "none", status_code |-> sc, body |-> b]

CreateOutcomes ==
    {Raises(e) : e \in TransportErrors} \cup
    {Answer(200, b) : b \in CreateBodies} \cup
    {Answer(201, NoRunId)} \cup
    {Answer(500, Unparsable)}

TestCaseOutcomes ==
    {Raises(e) : e \in TransportErrors} \cup
    {Answer(200, b) : b \in TestCaseBodies} \cup
    {Answer(201, OtherObject), Answer(500, Unparsable)}

PatchOutcomes ==
    {Raises(e) : e \in TransportErrors} \cup
    {Answer(sc, Unparsable) : sc \in {200, 201, 204, 500}}

\* Python truth value of a parsed body (`if response`): an empty object or
\* array is false, a non-zero number is true.
Truthy(b) ==
    CASE b.kind = "object" -> b.other_keys \/ b.has_pipeline_run
      [] b.kind = "array"  -> FALSE
      [] b.kind = "number" -> TRUE
      [] OTHER             -> FALSE

\* Python truth value of a run identifier (`not self.pipeline_run_id`).
IdSet(id) == id # "None" /\ id # ""

\* ------------------------------------------------------------- exceptions
ExceptionClasses ==
    TransportErrors \cup {"ValueError", "TypeError", "OSError",
                          "WebDriverException", "ImportError"}

\* variant: the handlers catch transport errors only
HandlerCatchesTransportOnly(e) == e \in TransportErrors

\* variant: the handlers let a ValueError through
HandlerCatchesNoValueError(e) == e \in ExceptionClasses \ {"ValueError"}

\* `except Exception` of the three lifecycle methods.
HandlerCatches(e) == e \in ExceptionClasses

\* the except clauses of _post_request and _patch_request: Timeout,
\* ConnectionError, then Exception.
RequestCatches(e) ==
    e = "Timeout" \/ e = "ConnectionError" \/ e \in ExceptionClasses

\* `except Exception` around the report attachments of the screenshot helper.
AttachCatches(e) == e \in ExceptionClasses

\* ------------------------------------------------------------ HTTP helpers
NoneResult   == [exc |-> "none", is_none |-> TRUE, body |-> Unparsable]
Thrown(e)    == [exc |-> e, is_none |-> TRUE, body |-> Unparsable]
Json(b)      == [exc |-> "none", is_none |-> FALSE, body |-> b]

PostSuccessCodes  == {200, 201}
PatchSuccessCodes == {200, 204}

\* _post_request: the parsed body on 200/201, None otherwise.
PostRequest(o) ==
    LET raisedInside ==
            IF o.exc # "none" THEN o.exc
            ELSE IF o.status_code \in PostSuccessCodes /\ ~o.body.parsable
                 THEN "ValueError"
                 ELSE "none"
    IN  IF raisedInside # "none"
        THEN IF RequestCatches(raisedInside) THEN NoneResult
             ELSE Thrown(raisedInside)
        ELSE IF o.status_code \in PostSuccessCodes THEN Json(o.body)
             ELSE NoneResult

\* _patch_request: True on 200/204, False otherwise.
PatchRequest(o) ==
    IF o.exc # "none"
    THEN IF RequestCatches(o.exc) THEN [exc |-> "none", ok |-> FALSE]
         ELSE [exc |-> o.exc, ok |-> FALSE]
    ELSE [exc |-> "none", ok |-> o.status_code \in PatchSuccessCodes]

\* ------------------------------------------------------------------- state
VARIABLES
    is_jenkins,        \* APIHelper.is_jenkins
    build_number,      \* APIHelper.build_number (text)
    pipeline_run_id,   \* APIHelper.pipeline_run_id
    test_results,      \* APIHelper.test_results
    suite_start_time,  \* APIHelper.suite_start_time: "None" or "set"
    api_call_count,    \* APIHelper.api_call_count
    pc,                \* session position: "start", "running", "finished"
    item,              \* number of the test item being run
    next_when,         \* phase of the item's next report
    report,            \* item.report, the last report stored on the item
    requests,          \* HTTP requests issued so far, in order
    last_response,     \* what the backend did with the last request
    create_response,   \* what the backend did with the run-create POST
    last_log,          \* last tracking line written to the log
    summary,           \* counts of the final summary line
    screenshot,        \* effects of the screenshot helper on this report
    raised,            \* functions that raised into their caller
    last_call,         \* arguments of the last after_each_test call
    n_after_each,      \* number of after_each_test calls
    logger_handlers,   \* logging.getLogger(name).handlers, per name
    logger_calls,      \* number of get_logger calls, per name
    logger_returned    \* name of the logger the last get_logger returned

vars == <<is_jenkins, build_number, pipeline_run_id, test_results,
          suite_start_time, api_call_count, pc, item, next_when, report,
          requests, last_response, create_response, last_log, summary,
          screenshot, raised, last_call, n_after_each, logger_handlers,
          logger_calls, logger_returned>>

helperState == <<is_jenkins, build_number>>

loggerState == <<logger_handlers, logger_calls, logger_returned>>

sessionState == <<is_jenkins, build_number, pipeline_run_id, test_results,
                  suite_start_time, api_call_count, pc, item, next_when,
                  report, requests, last_response, create_response,
                  last_log, summary, screenshot, raised, last_call,
                  n_after_each>>

\* the names the repository asks loggers for
LoggerNames == {"conftest", "base_page", "test_login"}

NoResponse   == [exc |-> "none", status_code |-> 0, body |-> Unparsable]
NoReport     == [when |-> "none", outcome |-> "none"]
NoSummary    == [by |-> "none", total |-> 0, passed |-> 0, failed |-> 0,
                 skipped |-> 0]
NoScreenshot == [called |-> FALSE, saved |-> FALSE, extra |-> FALSE,
                 attached |-> FALSE]
NoCall       == [name |-> 0, status |-> "none", duration |-> 0,
                 error_message |-> "None"]

\* APIHelper.__init__ under each environment; pytest has collected the items.
Init ==
    /\ \E e \in Envs :
          /\ is_jenkins = (e.JENKINS_HOME \/ e.HAS_BUILD_NUMBER)
          /\ build_number =
                IF e.HAS_BUILD_NUMBER THEN e.BUILD_NUMBER ELSE <<"0">>
    /\ pipeline_run_id = "None"
    /\ test_results = <<>>
    /\ suite_start_time = "None"
    /\ api_call_count = [k \in {"api-1", "api-3", "api-4"} |-> 0]
    /\ pc = "start"
    /\ item = 1
    /\ next_when = "setup"
    /\ report = NoReport
    /\ requests = <<>>
    /\ last_response = NoResponse
    /\ create_response = NoResponse
    /\ last_log = "none"
    /\ summary = NoSummary
    /\ screenshot = NoScreenshot
    /\ raised = {}
    /\ last_call = NoCall
    /\ n_after_each = 0
    /\ logger_handlers = [n \in LoggerNames |-> <<>>]
    /\ logger_calls = [n \in LoggerNames |-> 0]
    /\ logger_returned = "none"

\* -------------------------------------------------------- request payloads
Request(k, run, bn, name, st, dur, err, tot, pas, fai) ==
    [kind |-> k, run |-> run, build_number |-> bn, name |-> name,
     status |-> st, duration |-> dur, error_message |-> err,
     total_tests |-> tot, passed_tests |-> pas, failed_tests |-> fai]

CreateRequest(bn) ==
    Request("run-create", "None", bn, 0, "running", 0, "None", 0, 0, 0)

\* variant: the run identifier is left out of the payload
TestCaseRequestNoRun(run, name, st, dur, err) ==
    Request("test-case", "None", 0, name, st, dur, err, 0, 0, 0)

TestCaseRequest(run, name, st, dur, err) ==
    Request("test-case", run, 0, name, st, dur, err, 0, 0, 0)

UpdateRequest(run, st, tot, pas, fai) ==
    Request("run-update", run, 0, 0, st, 0, "None", tot, pas, fai)

\* ------------------------------------------------------- tracking client
\* variant: the last record is left out of the count
RECURSIVE CountStatusButLast(_, _)
CountStatusButLast(results, st) ==
    IF Len(results) <= 1 THEN 0
    ELSE (IF Head(results).status = st THEN 1 ELSE 0)
         + CountStatusButLast(Tail(results), st)

\* sum(1 for t in self.test_results if t['status'] == st)
RECURSIVE CountStatus(_, _)
CountStatus(results, st) ==
    IF results = <<>> THEN 0
    ELSE (IF Head(results).status = st THEN 1 ELSE 0)
         + CountStatus(Tail(results), st)

\* variant: the product is rounded to the nearest millisecond
DurationMsRounded(duration) == (duration + 5) \div 10

\* A duration is a number of tenths of a millisecond (12340 is 1.234 s).
\* int(duration * 1000): whole milliseconds.
DurationMs(duration) == duration \div 10

\* variant: the negation is dropped
LocalRunInverted == is_jenkins

\* `if not self.is_jenkins` of before_all_tests
LocalRun == ~is_jenkins

\* variant: the run identifier is not looked at
NoRemoteCiOnly == ~is_jenkins

\* `if not self.is_jenkins or not self.pipeline_run_id` of after_each_test
\* and after_all_tests
NoRemote == ~is_jenkins \/ ~IdSet(pipeline_run_id)

\* `'pipeline_run' in response` and `'run_id' in pipeline_run`; the operand
\* is a dict here.
HasPipelineRun(b) == b.has_pipeline_run
\* variant: the key is read without the membership test
HasRunIdUnchecked(b) == TRUE
HasRunId(b)       == b.has_run_id

\* variant: the status is stored as given
TestResultRawStatus(test_name, status, duration, error_message) ==
    [name |-> test_name, status |-> status, duration |-> duration,
     error_message |-> error_message]

\* the record after_each_test stores
TestResult(test_name, status, duration, error_message) ==
    [name |-> test_name, status |-> Upper(status), duration |-> duration,
     error_message |-> error_message]

\* variant: >= in place of >
OverallStatusOffByOne(failed_count) ==
    IF failed_count >= 0 THEN "failed" ELSE "passed"

\* `"failed" if failed_count > 0 else "passed"`
OverallStatus(failed_count) ==
    IF failed_count > 0 THEN "failed" ELSE "passed"

\* try-body of before_all_tests for a backend that treats the POST as o.
CreateRun(o) ==
    LET none == [sent |-> FALSE, exc |-> "none", set |-> FALSE,
                 run_id |-> "None", log |-> "none"]
        r    == PostRequest(o)
    IN  IF ~IsIntLiteral(build_number)
        THEN [none EXCEPT !.exc = "ValueError"]
        ELSE IF r.exc # "none"
        THEN [none EXCEPT !.sent = TRUE, !.exc = r.exc]
        ELSE IF r.is_none \/ ~Truthy(r.body)
        THEN [none EXCEPT !.sent = TRUE, !.log = "API-1 ERROR: structure"]
        ELSE IF r.body.kind = "number"
        THEN [none EXCEPT !.sent = TRUE, !.exc = "TypeError"]
        ELSE IF ~(r.body.kind = "object" /\ HasPipelineRun(r.body))
        THEN [none EXCEPT !.sent = TRUE, !.log = "API-1 ERROR: structure"]
        ELSE IF r.body.pr_kind # "object"
        THEN [none EXCEPT !.sent = TRUE, !.exc = "TypeError"]
        ELSE IF ~HasRunId(r.body)
        THEN [none EXCEPT !.sent = TRUE, !.log = "API-1 ERROR: run_id"]
        ELSE [none EXCEPT !.sent = TRUE, !.set = TRUE,
                          !.run_id = r.body.run_id,
                          !.log = "API-1 SUCCESS"]

before_all_tests(o) ==
    IF LocalRun
    THEN /\ last_log' = "local run"
         /\ UNCHANGED <<pipeline_run_id, suite_start_time, api_call_count,
                        requests, last_response, create_response, raised>>
    ELSE LET c == CreateRun(o) IN
         /\ suite_start_time' = "set"
         /\ requests' =
               IF c.sent
               THEN Append(requests, CreateRequest(IntOf(build_number)))
               ELSE requests
         /\ last_response' = IF c.sent THEN o ELSE last_response
         /\ create_response' = IF c.sent THEN o ELSE create_response
         /\ pipeline_run_id' = IF c.set THEN c.run_id ELSE pipeline_run_id
         /\ api_call_count' =
               IF c.set
               THEN [api_call_count EXCEPT !["api-1"] = @ + 1]
               ELSE api_call_count
         /\ last_log' = IF c.exc # "none" THEN "API-1 ERROR: exception"
                        ELSE c.log
         /\ raised' = IF c.exc # "none" /\ ~HandlerCatches(c.exc)
                      THEN raised \cup {"before_all_tests"}
                      ELSE raised

\* What after_each_test does with its arguments in the current state, for a
\* backend that treats the POST (if one is sent) as o.
AfterEachTest(test_name, status, duration, error_message, o) ==
    LET sends == ~NoRemote
        r     == PostRequest(o)
        ok    == r.exc = "none" /\ ~r.is_none /\ Truthy(r.body)
    IN  [record  |-> TestResult(test_name, status, duration, error_message),
         sent    |-> sends,
         request |-> TestCaseRequest(pipeline_run_id, test_name,
                                     Lower(status), DurationMs(duration),
                                     error_message),
         counted |-> sends /\ ok,
         exc     |-> IF sends THEN r.exc ELSE "none",
         log     |-> IF ~sends THEN "status line"
                     ELSE IF r.exc # "none" THEN "API-3 ERROR"
                     ELSE IF ok THEN "API-3: Test case created"
                     ELSE "API-3: Failed to create test case"]

\* _print_summary: nothing for an empty session, else the four counts.
PrintSummary ==
    IF test_results = <<>> THEN summary
    ELSE [by      |-> "_print_summary",
          total   |-> Len(test_results),
          passed  |-> CountStatus(test_results, "PASSED"),
          failed  |-> CountStatus(test_results, "FAILED"),
          skipped |-> CountStatus(test_results, "SKIPPED")]

after_all_tests(o) ==
    IF NoRemote
    THEN /\ summary' = PrintSummary
         /\ last_log' = IF test_results = <<>> THEN last_log
                        ELSE "Test Execution Summary"
         /\ UNCHANGED <<api_call_count, requests, last_response, raised>>
    ELSE LET passed_count   == CountStatus(test_results, "PASSED")
             failed_count   == CountStatus(test_results, "FAILED")
             skipped_count  == CountStatus(test_results, "SKIPPED")
             total_count    == Len(test_results)
             overall_status == OverallStatus(failed_count)
             p              == PatchRequest(o)
         IN
         /\ requests' =
               Append(requests,
                      UpdateRequest(pipeline_run_id, overall_status,
                                    total_count, passed_count, failed_count))
         /\ last_response' = o
         /\ api_call_count' =
               IF p.exc = "none" /\ p.ok
               THEN [api_call_count EXCEPT !["api-4"] = @ + 1]
               ELSE api_call_count
         /\ summary' =
               IF p.exc = "none" /\ p.ok
               THEN [by |-> "after_all_tests", total |-> total_count,
                     passed |-> passed_count, failed |-> failed_count,
                     skipped |-> skipped_count]
               ELSE summary
         /\ last_log' = IF p.exc # "none" THEN "API-4 ERROR: exception"
                        ELSE "API Integration Summary"
         /\ raised' = IF p.exc # "none" /\ ~HandlerCatches(p.exc)
                      THEN raised \cup {"after_all_tests"}
                      ELSE raised

\* ---------------------------------------------------- screenshot on failure
\* What the collaborators of save_screenshot_on_failure do in one call:
\* whether the item has the py fixture, and whether os.makedirs,
\* py.screenshot, the pytest_html import and allure.attach succeed.
ScreenshotEnv(py, md, sh, html, att) ==
    [has_py |-> py, makedirs_ok |-> md, screenshot_ok |-> sh,
     pytest_html_ok |-> html, attach_ok |-> att]

ScreenshotEnvs ==
    {ScreenshotEnv(FALSE, TRUE, TRUE, TRUE, TRUE),
     ScreenshotEnv(TRUE, FALSE, TRUE, TRUE, TRUE),
     ScreenshotEnv(TRUE, TRUE, FALSE, TRUE, TRUE),
     ScreenshotEnv(TRUE, TRUE, TRUE, FALSE, TRUE),
     ScreenshotEnv(TRUE, TRUE, TRUE, TRUE, FALSE),
     ScreenshotEnv(TRUE, TRUE, TRUE, TRUE, TRUE)}

save_screenshot_on_failure(env) ==
    LET done == [exc |-> "none", called |-> TRUE, saved |-> FALSE,
                 extra |-> FALSE, attached |-> FALSE]
        inTry == IF ~env.pytest_html_ok THEN "ImportError"
                 ELSE IF ~env.attach_ok THEN "OSError"
                 ELSE "none"
    IN  IF ~env.has_py THEN done
        ELSE IF ~env.makedirs_ok THEN [done EXCEPT !.exc = "OSError"]
        ELSE IF ~env.screenshot_ok
        THEN [done EXCEPT !.exc = "WebDriverException"]
        ELSE [done EXCEPT
                !.saved    = TRUE,
                !.extra    = env.pytest_html_ok,
                !.attached = env.pytest_html_ok /\ env.attach_ok,
                !.exc      = IF inTry # "none" /\ ~AttachCatches(inTry)
                             THEN inTry ELSE "none"]

\* ------------------------------------------------------------ pytest hooks
Durations == {12349}

\* rep.duration values around the millisecond boundaries
DurationSamples == {0, 9, 10, 12340, 12345, 12349}

\* pytest reports an item in up to three phases; a report's outcome is one
\* of passed, failed, skipped.
ReportOutcomes(when) ==
    IF when = "teardown" THEN {"passed", "failed"}
    ELSE {"passed", "failed", "skipped"}

LongReprs(outcome) ==
    IF outcome = "passed" THEN {"None"} ELSE {"None", "longrepr"}

\* variant: the skipped branch is missing
HookStatusNoSkipped(outcome) ==
    IF outcome = "passed" THEN "passed"
    ELSE IF outcome = "failed" THEN "failed"
    ELSE "unknown"

\* the if/elif chain of pytest_runtest_makereport
HookStatus(outcome) ==
    IF outcome = "passed" THEN "passed"
    ELSE IF outcome = "failed" THEN "failed"
    ELSE IF outcome = "skipped" THEN "skipped"
    ELSE "unknown"

HookErrorMessage(outcome, longrepr) ==
    IF outcome = "passed" THEN "None"
    ELSE IF outcome = "failed"
    THEN (IF longrepr # "None" THEN longrepr ELSE "Test failed")
    ELSE IF outcome = "skipped"
    THEN (IF longrepr # "None" THEN longrepr ELSE "Test skipped")
    ELSE "None"

NextWhen(when, outcome) ==
    CASE when = "setup" /\ outcome = "passed" -> "call"
      [] when = "setup" /\ outcome # "passed" -> "teardown"
      [] when = "call"                        -> "teardown"
      [] when = "teardown"                    -> "setup"

pytest_sessionstart ==
    /\ pc = "start"
    /\ \E o \in (IF ~LocalRun /\ IsIntLiteral(build_number)
                 THEN CreateOutcomes ELSE {NoResponse}) :
          before_all_tests(o)
    /\ pc' = "running"
    /\ UNCHANGED <<helperState, test_results, item, next_when, report,
                   summary, screenshot, last_call, n_after_each,
                   loggerState>>

\* the `rep.when == "call"` branch of the hook, rep.duration in durations
ReportCallOf(outcome, durations) ==
    \E duration \in durations, longrepr \in LongReprs(outcome),
       o \in (IF ~NoRemote THEN TestCaseOutcomes ELSE {NoResponse}),
       env \in (IF outcome = "failed" THEN ScreenshotEnvs
                ELSE {ScreenshotEnv(FALSE, TRUE, TRUE, TRUE, TRUE)}) :
       LET status        == HookStatus(outcome)
           error_message == HookErrorMessage(outcome, longrepr)
           a  == AfterEachTest(item, status, duration, error_message, o)
           aRaised == a.exc # "none" /\ ~HandlerCatches(a.exc)
           s  == IF outcome = "failed" /\ ~aRaised
                 THEN save_screenshot_on_failure(env)
                 ELSE [exc |-> "none", called |-> FALSE, saved |-> FALSE,
                       extra |-> FALSE, attached |-> FALSE]
       IN
       /\ test_results' = Append(test_results, a.record)
       /\ last_call' = [name |-> item, status |-> status,
                        duration |-> duration,
                        error_message |-> error_message]
       /\ n_after_each' = n_after_each + 1
       /\ requests' = IF a.sent THEN Append(requests, a.request)
                      ELSE requests
       /\ last_response' = IF a.sent THEN o ELSE last_response
       /\ api_call_count' =
             IF a.counted
             THEN [api_call_count EXCEPT !["api-3"] = @ + 1]
             ELSE api_call_count
       /\ last_log' = a.log
       /\ screenshot' = [called |-> s.called, saved |-> s.saved,
                         extra |-> s.extra, attached |-> s.attached]
       /\ raised' = raised
                    \cup (IF aRaised THEN {"after_each_test"} ELSE {})
                    \cup (IF s.exc # "none"
                          THEN {"save_screenshot_on_failure"} ELSE {})

ReportCall(outcome) == ReportCallOf(outcome, Durations)

\* the hook, for a session of at most limit items
MakeReport(limit, durations) ==
    /\ pc = "running"
    /\ raised = {}
    /\ item <= limit
    /\ \E outcome \in ReportOutcomes(next_when) :
          /\ report' = [when |-> next_when, outcome |-> outcome]
          /\ IF next_when = "call"
             THEN ReportCallOf(outcome, durations)
             ELSE /\ screenshot' = NoScreenshot
                  /\ UNCHANGED <<test_results, last_call, n_after_each,
                                 requests, last_response, api_call_count,
                                 last_log, raised>>
          /\ next_when' = IF raised' # {} THEN next_when
                          ELSE NextWhen(next_when, outcome)
          /\ item' = IF raised' = {} /\ next_when = "teardown"
                     THEN item + 1 ELSE item
    /\ UNCHANGED <<helperState, pipeline_run_id, suite_start_time, pc,
                   summary, create_response, loggerState>>

pytest_runtest_makereport == MakeReport(MaxTests, Durations)

\* the hook in a short session whose tests take any of DurationSamples
pytest_runtest_makereport_timed == MakeReport(MaxTimedTests, DurationSamples)

pytest_sessionfinish ==
    /\ pc = "running"
    /\ next_when = "setup" \/ raised # {}
    /\ \E o \in (IF ~NoRemote THEN PatchOutcomes ELSE {NoResponse}) :
          after_all_tests(o)
    /\ pc' = "finished"
    /\ UNCHANGED <<helperState, pipeline_run_id, test_results,
                   suite_start_time, item, next_when, report, screenshot,
                   last_call, n_after_each, create_response, loggerState>>

Next ==
    \/ pytest_sessionstart
    \/ pytest_runtest_makereport
    \/ pytest_sessionfinish

Spec == Init /\ [][Next]_vars

DurationNext ==
    \/ pytest_sessionstart
    \/ pytest_runtest_makereport_timed
    \/ pytest_sessionfinish

DurationSpec == Init /\ [][DurationNext]_vars

\* ------------------------------------------------------------------ logger
\* variant: the handlers are attached on every call
HasHandlersNever(handlers) == FALSE

\* `if logger.handlers`
HasHandlers(handlers) == handlers # <<>>

\* the handler of one kind created by the call-th call for a name
Handler(kind, call) == [kind |-> kind, call |-> call]

\* get_logger(name); the logs directory and the log file can be created.
get_logger(name) ==
    /\ logger_calls[name] < MaxLoggerCalls
    /\ logger_calls' = [logger_calls EXCEPT ![name] = @ + 1]
    /\ logger_handlers' =
          IF HasHandlers(logger_handlers[name]) THEN logger_handlers
          ELSE [logger_handlers EXCEPT ![name] =
                   @ \o <<Handler("file", logger_calls[name] + 1),
                          Handler("console", logger_calls[name] + 1)>>]
    /\ logger_returned' = name
    /\ UNCHANGED sessionState

LoggerNext == \E name \in LoggerNames : get_logger(name)

LoggerSpec == Init /\ [][LoggerNext]_vars

\* =================================================================== claims
ApiMethods == {"before_all_tests", "after_each_test", "after_all_tests"}

\* number of recorded results with status st
Tally(st) ==
    Cardinality({i \in DOMAIN test_results : test_results[i].status = st})

Statuses == [i \in DOMAIN test_results |-> test_results[i].status]

UpdateRequests == {i \in DOMAIN requests : requests[i].kind = "run-update"}

SuccessAnswer(o, codes) == o.exc = "none" /\ o.status_code \in codes

\* the run-create POST was answered with a run identifier
ValidCreate ==
    /\ SuccessAnswer(create_response, {200, 201})
    /\ \E r \in RunIds : create_response.body = RunIdBody(r)

\* C1: outside CI no HTTP request is ever issued, by before_all_tests or by
\* any later after_each_test or after_all_tests, and pipeline_run_id stays
\* unset, whatever tests are recorded.
C1_LocalRunNoHttp ==
    ~is_jenkins =>
        /\ requests = <<>>
        /\ last_response = NoResponse
        /\ pipeline_run_id = "None"
        /\ \A k \in DOMAIN api_call_count : api_call_count[k] = 0

C1_Witness ==
    /\ ~is_jenkins
    /\ pc = "finished"
    /\ Len(test_results) >= 2
    /\ Tally("PASSED") >= 1
    /\ Tally("FAILED") >= 1

\* C2: none of before_all_tests, after_each_test, after_all_tests raises to
\* its caller, whatever the backend does with each request.
C2_NeverRaises == raised \cap ApiMethods = {}

\* a finished CI session in which a test-case POST failed and the PATCH
\* timed out
C2_Witness ==
    /\ pc = "finished"
    /\ is_jenkins
    /\ UpdateRequests # {}
    /\ last_response = Raises("Timeout")
    /\ n_after_each >= 2
    /\ api_call_count["api-3"] < n_after_each

\* C3: the counts of every run-update PATCH are the tally of test_results:
\* total_tests its length, passed_tests and failed_tests the number of
\* PASSED and FAILED records.
C3_PatchCountsAreTally ==
    \A i \in UpdateRequests :
        /\ requests[i].total_tests = Len(test_results)
        /\ requests[i].passed_tests = Tally("PASSED")
        /\ requests[i].failed_tests = Tally("FAILED")

C3_Witness ==
    /\ \E i \in UpdateRequests :
          /\ requests[i].total_tests >= 3
          /\ requests[i].passed_tests >= 1
          /\ requests[i].failed_tests >= 1
    /\ api_call_count["api-3"] >= 1
    /\ api_call_count["api-3"] < Len(test_results)

\* C4: the counts of the final summary add up to the number of recorded
\* results, and each is the number of results with that status.
C4_SummaryCounts ==
    summary.by # "none" =>
        /\ summary.total = Len(test_results)
        /\ summary.passed + summary.failed + summary.skipped
              = Len(test_results)
        /\ summary.passed = Tally("PASSED")
        /\ summary.failed = Tally("FAILED")
        /\ summary.skipped = Tally("SKIPPED")

C4_Witness ==
    /\ summary.by = "_print_summary"
    /\ summary.passed >= 1
    /\ summary.failed >= 1
    /\ summary.skipped >= 1

\* C5: the status of the run-update PATCH is "failed" exactly when some
\* recorded result is FAILED, and "passed" otherwise.
C5_OverallStatus ==
    \A i \in UpdateRequests :
        /\ requests[i].status = "failed" <=>
              (\E j \in DOMAIN test_results :
                  test_results[j].status = "FAILED")
        /\ requests[i].status \in {"failed", "passed"}

\* a PATCH with status "passed" although every test-case POST failed and
\* nothing passed
C5_Witness ==
    /\ \E i \in UpdateRequests : requests[i].status = "passed"
    /\ Len(test_results) >= 2
    /\ Tally("SKIPPED") = Len(test_results)
    /\ api_call_count["api-3"] = 0

\* the run-create POST was answered with a success status and a body without
\* the nested identifier
LacksIdentifier ==
    /\ SuccessAnswer(create_response, {200, 201})
    /\ create_response.body.parsable
    /\ create_response.body.kind = "object"
    /\ \/ ~create_response.body.has_pipeline_run
       \/ create_response.body.pr_kind # "object"
       \/ ~create_response.body.has_run_id

\* C6: when the run-create POST succeeds with a body lacking the identifier,
\* before_all_tests does not raise, pipeline_run_id stays unset, api-1 is
\* not counted, and no further request is issued in the session.
C6_MissingIdentifier ==
    LacksIdentifier =>
        /\ "before_all_tests" \notin raised
        /\ pipeline_run_id = "None"
        /\ api_call_count["api-1"] = 0
        /\ Len(requests) = 1
        /\ last_response = create_response

C6_Witness ==
    /\ LacksIdentifier
    /\ create_response.body.has_pipeline_run
    /\ create_response.body.pr_kind = "object"
    /\ pc = "finished"
    /\ n_after_each >= 2

\* the test-case POST of the i-th recorded result
IsTestCaseOf(q, i) ==
    /\ q.kind = "test-case"
    /\ q.run = pipeline_run_id
    /\ q.name = test_results[i].name
    /\ <<q.status, test_results[i].status>> \in
          {<<"passed", "PASSED">>, <<"failed", "FAILED">>,
           <<"skipped", "SKIPPED">>}

\* C7: once the run-create POST returned an identifier, the requests of a
\* session are one run-create POST, one test-case POST per recorded result
\* in recording order with that identifier, and at session end one
\* run-update PATCH; for pass, fail, skip the PATCH carries 3, 1, 1, failed.
C7_CallSequence ==
    ValidCreate =>
        LET n == Len(test_results) IN
        /\ pipeline_run_id = create_response.body.run_id
        /\ Len(requests) = (IF pc = "finished" THEN n + 2 ELSE n + 1)
        /\ requests[1].kind = "run-create"
        /\ \A i \in 1..n : IsTestCaseOf(requests[i + 1], i)
        /\ pc = "finished" =>
              /\ requests[n + 2].kind = "run-update"
              /\ requests[n + 2].run = pipeline_run_id
              /\ Statuses = <<"PASSED", "FAILED", "SKIPPED">> =>
                    /\ requests[n + 2].total_tests = 3
                    /\ requests[n + 2].passed_tests = 1
                    /\ requests[n + 2].failed_tests = 1
                    /\ requests[n + 2].status = "failed"

C7_Witness ==
    /\ ValidCreate
    /\ pc = "finished"
    /\ Statuses = <<"PASSED", "FAILED", "SKIPPED">>
    /\ api_call_count = [k \in {"api-1", "api-3", "api-4"} |->
                            IF k = "api-3" THEN 3 ELSE 1]

\* the record a call with arguments c has to store
RecordOf(c, rec) ==
    /\ rec.name = c.name
    /\ rec.duration = c.duration
    /\ rec.error_message = c.error_message
    /\ <<c.status, rec.status>> \in
          {<<"passed", "PASSED">>, <<"failed", "FAILED">>,
           <<"skipped", "SKIPPED">>, <<"unknown", "UNKNOWN">>}

\* C8: each after_each_test call appends exactly one record (name,
\* upper-cased status, duration, error message) to test_results and keeps
\* the earlier records; nothing else changes test_results.
C8_AppendsOneRecord ==
    [][ /\ n_after_each' # n_after_each =>
            /\ Len(test_results') = Len(test_results) + 1
            /\ SubSeq(test_results', 1, Len(test_results)) = test_results
            /\ RecordOf(last_call', test_results'[Len(test_results')])
        /\ n_after_each' = n_after_each => test_results' = test_results
      ]_vars

\* recorded outside CI, and recorded under CI although the POST timed out
C8_Witness ==
    /\ n_after_each >= 2
    /\ Len(test_results) = n_after_each
    /\ pipeline_run_id \in RunIds
    /\ requests[Len(requests)].kind = "test-case"
    /\ last_response = Raises("ConnectionError")
    /\ api_call_count["api-3"] = 0

\* C9: save_screenshot_on_failure never raises into the hook.
C9_ScreenshotNeverRaises == "save_screenshot_on_failure" \notin raised

\* C10: a test-case POST answered 200 or 201 counts as a success (api-3
\* incremented, success line logged) whatever its body; any other status or
\* a transport error counts as a failure.
C10_StatusDecidesSuccess ==
    [][ (/\ Len(requests') = Len(requests) + 1
         /\ requests'[Len(requests')].kind = "test-case")
        =>
        IF SuccessAnswer(last_response', {200, 201})
        THEN /\ api_call_count'["api-3"] = api_call_count["api-3"] + 1
             /\ last_log' = "API-3: Test case created"
        ELSE /\ api_call_count'["api-3"] = api_call_count["api-3"]
             /\ last_log' # "API-3: Test case created"
      ]_vars

\* C11: the hook records exactly one result per test: whenever an item has
\* been reported through its last phase, after_each_test has been called
\* once for each item run so far.
C11_OneRecordPerTest ==
    (next_when = "setup" /\ raised = {}) =>
        /\ n_after_each = item - 1
        /\ Len(test_results) = item - 1

CreateRequests == {i \in DOMAIN requests : requests[i].kind = "run-create"}

TestCaseRequests == {i \in DOMAIN requests : requests[i].kind = "test-case"}

\* the run-create POST succeeded and returned an identifier
CreateReturnedId ==
    /\ SuccessAnswer(create_response, {200, 201})
    /\ create_response.body.parsable
    /\ create_response.body.kind = "object"
    /\ create_response.body.has_pipeline_run
    /\ create_response.body.pr_kind = "object"
    /\ create_response.body.has_run_id
    /\ create_response.body.run_id \notin {"None", ""}

\* C12: at most one run-create POST and at most one run-update PATCH are
\* sent (the first can only be the first request, the second only the
\* last); the PATCH and every test-case POST are sent only after a
\* run-create POST that returned an identifier, the PATCH targets that
\* identifier, and no test-case POST follows the PATCH.
C12_CreateOnceUpdateOnce ==
    \A i \in DOMAIN requests :
        /\ requests[i].kind = "run-create" => i = 1
        /\ requests[i].kind = "run-update" =>
              /\ CreateReturnedId
              /\ requests[1].kind = "run-create"
              /\ requests[i].run = create_response.body.run_id
              /\ i = Len(requests)
        /\ requests[i].kind = "test-case" =>
              /\ CreateReturnedId
              /\ requests[1].kind = "run-create"
              /\ i > 1
              /\ \A j \in 1..i : requests[j].kind # "run-update"

C12_Witness ==
    /\ pc = "finished"
    /\ Cardinality(CreateRequests) = 1
    /\ Cardinality(UpdateRequests) = 1
    /\ Cardinality(TestCaseRequests) >= 2
    /\ last_response = Answer(500, Unparsable)

\* C15: under CI with a BUILD_NUMBER that is not an integer literal,
\* before_all_tests sends nothing, does not raise and leaves pipeline_run_id
\* unset, and no request is sent in the rest of the session.
C15_BadBuildNumber ==
    (is_jenkins /\ build_number \in {<<"a", "b">>, <<"4", ".", "2">>, <<>>})
    =>
        /\ requests = <<>>
        /\ last_response = NoResponse
        /\ create_response = NoResponse
        /\ pipeline_run_id = "None"
        /\ "before_all_tests" \notin raised
        /\ \A k \in DOMAIN api_call_count : api_call_count[k] = 0
        /\ pc = "start" \/ suite_start_time = "set"

C15_Witness ==
    /\ is_jenkins
    /\ build_number = <<"a", "b">>
    /\ pc = "finished"
    /\ n_after_each >= 2
    /\ summary.by = "_print_summary"

\* C16: pipeline_run_id is set only under CI after one successful
\* run-create POST and never changes once set; api-1 is 1 exactly when
\* pipeline_run_id is set and 0 otherwise; api-3 grows by one exactly with
\* each test-case POST answered 200 or 201 and never exceeds the number of
\* recorded results; api-4 is at most 1.
C16_IdAndCounters ==
    /\ [](/\ pipeline_run_id # "None" =>
                /\ is_jenkins
                /\ Cardinality(CreateRequests) = 1
                /\ SuccessAnswer(create_response, {200, 201})
          /\ api_call_count["api-1"] =
                (IF pipeline_run_id # "None" THEN 1 ELSE 0)
          /\ api_call_count["api-3"] <= Len(test_results)
          /\ api_call_count["api-4"] <= 1)
    /\ [][/\ pipeline_run_id # "None" => pipeline_run_id' = pipeline_run_id
          /\ api_call_count'["api-3"] =
                (IF /\ Len(requests') = Len(requests) + 1
                    /\ requests'[Len(requests')].kind = "test-case"
                    /\ SuccessAnswer(last_response', {200, 201})
                 THEN api_call_count["api-3"] + 1
                 ELSE api_call_count["api-3"])
      ]_vars

\* ms is d (tenths of a millisecond) cut down to whole milliseconds
Truncated(d, ms) == ms * 10 <= d /\ d < (ms + 1) * 10

\* C13: the duration of a test-case payload is the recorded duration in
\* whole milliseconds, truncated and never rounded (1.234 s and 1.2349 s
\* both give 1234); the stored record keeps the duration it was given.
C13_DurationTruncated ==
    /\ \A i \in TestCaseRequests :
          \E j \in DOMAIN test_results :
              /\ test_results[j].name = requests[i].name
              /\ Truncated(test_results[j].duration, requests[i].duration)
              /\ test_results[j].duration \in {12340, 12349} =>
                    requests[i].duration = 1234
    /\ n_after_each > 0 =>
          test_results[Len(test_results)].duration = last_call.duration

C13_Witness ==
    \E i \in TestCaseRequests :
        /\ requests[i].duration = 1234
        /\ test_results[Len(test_results)].duration = 12349
        /\ test_results[Len(test_results)].name = requests[i].name

\* C14: after any sequence of get_logger calls, a logger that was asked for
\* has exactly the file handler and the console handler its first call
\* attached, a logger never asked for has none, and each call returns the
\* logger of its name.
C14_LoggerIdempotent ==
    /\ \A n \in LoggerNames :
          logger_handlers[n] =
             IF logger_calls[n] = 0 THEN <<>>
             ELSE <<[kind |-> "file", call |-> 1],
                    [kind |-> "console", call |-> 1]>>
    /\ logger_returned # "none" =>
          /\ logger_returned \in LoggerNames
          /\ logger_calls[logger_returned] > 0

C14_Witness ==
    /\ logger_calls["conftest"] >= 3
    /\ logger_calls["base_page"] = 1
    /\ logger_calls["test_login"] = 0
    /\ Len(logger_handlers["conftest"]) = 2
    /\ logger_returned = "conftest"

====
